---- MODULE Spec2Model ----
(***************************************************************************)
(* Model of check-translations (src/main.py): the loader, the report       *)
(* (gh_summary), the five checks and the driver main().                    *)
(*                                                                         *)
(* A language table (a parsed JSON object, a Python dict) is a sequence of *)
(* <<key, value>> pairs with distinct keys: the sequence order is the      *)
(* dict's insertion order, which is the file order.  The translations map  *)
(* is a sequence of <<lang, table>> pairs in insertion order.  The report  *)
(* is the sequence of lines handed to gh_summary.  An exception is the     *)
(* string of its message (or the name of its class for the ones Python     *)
(* raises itself); "" means that nothing was raised.                       *)
(***************************************************************************)
EXTENDS Integers, Sequences, FiniteSets, TLC

VARIABLES
    lang_dir,                    \* the .json files of --lang-dir: [file names without ".json" -> table]
    wurst_mode,                  \* the --wurst-mode flag
    intentionally_untranslated,  \* the parsed intentionally_untranslated.json: [langs -> set of keys]
    en_us,                       \* main's en_us, or the argument of a check called on its own
    translations,                \* main's translations, or the argument of a check called on its own
    pc,                          \* the position of main(), or the check that was called on its own
    report,                      \* the lines gh_summary has emitted in this run
    error,                       \* the exception that ended the run ("" when none)
    started,                     \* the steps of main() that have started executing in this run
    run,                         \* the number of the current run of the program
    first_report                 \* the report of the previous run on the same input

vars == <<lang_dir, wurst_mode, intentionally_untranslated, en_us, translations,
          pc, report, error, started, run, first_report>>

(***************************************************************************)
(* Bounds of the model.                                                    *)
(***************************************************************************)
\* Most entries that the translation files of one input hold together.
MaxEntries == 4
\* Most entries of the translation files of a directory that main() loads.
MaxDirEntries == 2
\* Most entries of the translations that check_known_issues is called on.
MaxKnownEntries == 2
\* The program is run at most this many times on one input.
MaxRuns == 2

\* The names of the .json files, in lexicographic order, and those of them
\* that are language codes of translations.
FileNames == <<"de", "en_us", "fr">>
Langs == SelectSeq(FileNames, LAMBDA name : name # "en_us")

(***************************************************************************)
(* Dicts.                                                                  *)
(***************************************************************************)
\* data.keys(), as a list and as a set
KeyList(data) == [i \in DOMAIN data |-> data[i][1]]
KeySet(data) == {data[i][1] : i \in DOMAIN data}

\* key in data
HasKey(data, key) == key \in KeySet(data)

\* data[key], for a key of data
Lookup(data, key) == data[CHOOSE i \in DOMAIN data : data[i][1] = key][2]

\* data.pop(key, None): the entry is removed if present, the others keep their order
Pop(data, key) == SelectSeq(data, LAMBDA e : e[1] # key)

\* The enumerations of a set: the orders in which iterating a Python set of
\* strings can yield its elements (the order follows the strings' hashes,
\* which are salted per process).
Orders(S) == {p \in [1..Cardinality(S) -> S] : \A i, j \in DOMAIN p : p[i] = p[j] => i = j}

\* typo in value: a contiguous substring
Contains(typo, value) ==
    \E i \in 1..(Len(value) - Len(typo) + 1) : SubSeq(value, i, i + Len(typo) - 1) = typo

LowerChar(c) ==
    CASE c = "A" -> "a" [] c = "B" -> "b" [] c = "C" -> "c" [] c = "D" -> "d"
      [] c = "E" -> "e" [] c = "F" -> "f" [] c = "G" -> "g" [] c = "H" -> "h"
      [] c = "I" -> "i" [] c = "J" -> "j" [] c = "K" -> "k" [] c = "L" -> "l"
      [] c = "M" -> "m" [] c = "N" -> "n" [] c = "O" -> "o" [] c = "P" -> "p"
      [] c = "Q" -> "q" [] c = "R" -> "r" [] c = "S" -> "s" [] c = "T" -> "t"
      [] c = "U" -> "u" [] c = "V" -> "v" [] c = "W" -> "w" [] c = "X" -> "x"
      [] c = "Y" -> "y" [] c = "Z" -> "z" [] OTHER -> c

\* value.lower()
RECURSIVE Lower(_)
Lower(value) ==
    IF Len(value) = 0 THEN ""
    ELSE LowerChar(SubSeq(value, 1, 1)) \o Lower(SubSeq(value, 2, Len(value)))

\* The strings of the model are ASCII.  These stand for the three other
\* characters of the program's strings: the white heavy check mark (U+2705)
\* that starts every confirmation line, the warning sign (U+26A0) that starts
\* every warning, and the section sign (U+00A7) of the colour codes.
CheckMark == "[OK]"
WarningSign == "[!]"
SectionSign == "&"

\* The three backquotes that open and close a code block of the report; a
\* TLA+ string cannot hold a backquote.
Fence == "'''"

(***************************************************************************)
(* show_translation_stats                                                  *)
(***************************************************************************)
\* f"{n / d * 100:.2f}" for d > 0: the quotient in hundredths of a percent,
\* rounded to the nearest, with two decimals.
Percent(n, d) ==
    LET h == (n * 20000 + d) \div (2 * d)
        c == h % 100
    IN  ToString(h \div 100) \o "." \o (IF c < 10 THEN "0" ELSE "") \o ToString(c)

\* The lines of the loop over translations.items() from language i on, and
\* the exception that ends it: the division raises when en_us is empty.
RECURSIVE stats_loop(_, _, _)
stats_loop(en, tr, i) ==
    IF i > Len(tr) THEN [lines |-> <<>>, exc |-> ""]
    ELSE IF Len(en) = 0 THEN [lines |-> <<>>, exc |-> "ZeroDivisionError"]
    ELSE LET rest == stats_loop(en, tr, i + 1)
         IN  [lines |-> <<"| " \o tr[i][1] \o " | " \o ToString(Len(tr[i][2])) \o " | "
                           \o Percent(Len(tr[i][2]), Len(en)) \o "% |">> \o rest.lines,
              exc |-> rest.exc]

show_translation_stats(en, tr) ==
    LET head == <<"| Language | Translated | % |", "| --- | --- | --- |",
                  "| en_us | " \o ToString(Len(en)) \o " | 100.00% |">>
        loop == stats_loop(en, tr, 1)
    IN  IF loop.exc # "" THEN [lines |-> head \o loop.lines, exc |-> loop.exc]
        ELSE [lines |-> head \o loop.lines \o <<"">>, exc |-> ""]

(***************************************************************************)
(* check_extra_keys                                                        *)
(***************************************************************************)
\* The lines emitted for one language: none when it has no extra key, else
\* the heading and one line per extra key, in an iteration order of the set.
extra_keys_report(en, lang, data) ==
    LET extra_keys == KeySet(data) \ KeySet(en)
    IN  IF extra_keys = {} THEN {<<>>}
        ELSE {<<WarningSign \o " " \o lang \o ".json contains translations that don't exist in en_us.json ("
                 \o ToString(Cardinality(extra_keys)) \o " found):">>
              \o [j \in DOMAIN p |-> "- " \o p[j]] : p \in Orders(extra_keys)}

\* extra_keys_loop as it would be with the raise inside the loop: it stops at
\* the first offending language.
RECURSIVE extra_keys_loop_first(_, _, _)
extra_keys_loop_first(en, tr, i) ==
    IF i > Len(tr) THEN {[lines |-> <<>>, found |-> FALSE]}
    ELSE IF KeySet(tr[i][2]) \ KeySet(en) # {}
        THEN {[lines |-> b, found |-> TRUE] : b \in extra_keys_report(en, tr[i][1], tr[i][2])}
    ELSE extra_keys_loop_first(en, tr, i + 1)

\* The loop over translations.items() from language i on: the line sequences
\* it can emit, each with extra_keys_found.
RECURSIVE extra_keys_loop(_, _, _)
extra_keys_loop(en, tr, i) ==
    IF i > Len(tr) THEN {[lines |-> <<>>, found |-> FALSE]}
    ELSE {[lines |-> b \o r.lines,
           found |-> r.found \/ b # <<>>] :
             b \in extra_keys_report(en, tr[i][1], tr[i][2]),
             r \in extra_keys_loop(en, tr, i + 1)}

\* check_extra_keys as it would be without its raise: it only reports.
check_extra_keys_report_only(en, tr) ==
    {[lines |-> r.lines \o (IF r.found THEN <<>> ELSE <<CheckMark \o " No extra keys found">>),
      exc |-> ""] : r \in extra_keys_loop(en, tr, 1)}

\* The outcomes the call can have: the lines it emits and what it raises.
check_extra_keys(en, tr) ==
    {IF r.found
        THEN [lines |-> r.lines, exc |-> "Found extra keys in one or more translation files"]
        ELSE [lines |-> r.lines \o <<CheckMark \o " No extra keys found">>, exc |-> ""] :
      r \in extra_keys_loop(en, tr, 1)}

(***************************************************************************)
(* check_untranslated_strings                                              *)
(***************************************************************************)
\* untranslated_strings as it would be if a language of the exemption table
\* were exempted as a whole.
untranslated_strings_by_language(en, iu, lang, data) ==
    {key \in KeySet(data) : Lookup(data, key) = Lookup(en, key) /\ lang \notin DOMAIN iu}

\* The keys the inner loop adds to untranslated_strings, for a table whose
\* keys are all keys of en_us.
untranslated_strings(en, iu, lang, data) ==
    {key \in KeySet(data) :
        /\ Lookup(data, key) = Lookup(en, key)
        /\ ~(lang \in DOMAIN iu /\ key \in iu[lang])}

\* The lines emitted for one language with the offenders in order p: the
\* same set is iterated twice, unchanged, so both listings are in one order.
untranslated_report(en, lang, p) ==
    IF Len(p) = 0 THEN <<>>
    ELSE <<WarningSign \o " " \o lang \o ".json contains strings that are identical to en_us.json ("
            \o ToString(Len(p)) \o " found):">>
         \o [j \in DOMAIN p |-> "- " \o p[j] \o ": " \o Lookup(en, p[j])]
         \o <<"\nIf this is intentional, add the affected key(s) to intentionally_untranslated.json:",
              Fence \o "json",
              "  \"" \o lang \o "\": [">>
         \o [j \in DOMAIN p |-> "    \"" \o p[j] \o "\""]
         \o <<"  ]", Fence>>

\* The loop over translations.items() from language i on.  en_us[key] is
\* evaluated for every key of the table before anything is emitted for the
\* language, and raises KeyError at a key that en_us does not hold.
RECURSIVE untranslated_loop(_, _, _, _)
untranslated_loop(en, tr, iu, i) ==
    IF i > Len(tr) THEN {[lines |-> <<>>, exc |-> "", found |-> FALSE]}
    ELSE IF ~(KeySet(tr[i][2]) \subseteq KeySet(en))
        THEN {[lines |-> <<>>, exc |-> "KeyError", found |-> FALSE]}
    ELSE LET us == untranslated_strings(en, iu, tr[i][1], tr[i][2])
         IN  {[lines |-> untranslated_report(en, tr[i][1], p) \o r.lines,
               exc |-> r.exc,
               found |-> r.found \/ us # {}] :
                 p \in Orders(us), r \in untranslated_loop(en, tr, iu, i + 1)}

check_untranslated_strings(en, tr, iu) ==
    {IF r.exc # "" THEN [lines |-> r.lines, exc |-> r.exc]
     ELSE IF r.found
        THEN [lines |-> r.lines,
              exc |-> "Found untranslated strings in one or more translation files"]
     ELSE [lines |-> r.lines \o <<CheckMark \o " No accidentally untranslated strings found">>,
           exc |-> ""] :
      r \in untranslated_loop(en, tr, iu, 1)}

(***************************************************************************)
(* check_order_of_strings                                                  *)
(***************************************************************************)
\* en_us_keys_present_in_translation as it would be without its filter.
all_en_us_keys(en, data) == KeyList(en)

en_us_keys_present_in_translation(en, data) ==
    SelectSeq(KeyList(en), LAMBDA key : HasKey(data, key))

translation_keys_present_in_en_us(en, data) ==
    SelectSeq(KeyList(data), LAMBDA key : HasKey(en, key))

\* The loop over translations.items() from language i on: the exception of
\* the first language whose two lists differ, "" when there is none.
RECURSIVE order_loop(_, _, _)
order_loop(en, tr, i) ==
    IF i > Len(tr) THEN ""
    ELSE IF en_us_keys_present_in_translation(en, tr[i][2])
              # translation_keys_present_in_en_us(en, tr[i][2])
        THEN WarningSign \o " The order of strings in " \o tr[i][1] \o ".json is different from en_us.json"
    ELSE order_loop(en, tr, i + 1)

check_order_of_strings(en, tr) ==
    LET exc == order_loop(en, tr, 1)
    IN  IF exc # "" THEN [lines |-> <<>>, exc |-> exc]
        ELSE [lines |-> <<CheckMark \o " The order of strings in each translation file matches en_us.json">>,
              exc |-> ""]

(***************************************************************************)
(* check_known_issues                                                      *)
(***************************************************************************)
\* typo -> correct, in the order of the dict literal
known_typos ==
    << <<"Anchoraura", "AnchorAura">>,
       <<"Autobuild", "AutoBuild">>,
       <<"Clickaura", "ClickAura">>,
       <<"KillAura", "Killaura">>,
       <<"LegitNuker", "Nuker">>,
       <<"LegitKillaura", "KillauraLegit">>,
       <<"Nofall", "NoFall">>,
       <<"Triggerbot", "TriggerBot">> >>

boatfly_key == "description.wurst.hack.boatfly"
radar_key == "description.wurst.hack.radar"

\* The lines of the loop over known_typos.items() for one entry, from typo t on.
RECURSIVE typos_of_value(_, _, _, _)
typos_of_value(lang, key, value, t) ==
    IF t > Len(known_typos) THEN <<>>
    ELSE (IF Contains(known_typos[t][1], value)
            THEN <<WarningSign \o " In " \o lang \o ".json string " \o key \o ", the word '"
                    \o known_typos[t][2] \o "' is incorrectly translated as '"
                    \o known_typos[t][1] \o "':",
                   Fence \o "json",
                   "  \"" \o key \o "\": \"" \o value \o "\"",
                   Fence>>
            ELSE <<>>)
         \o typos_of_value(lang, key, value, t + 1)

\* The lines of the loop over data.items() for one language, from entry e on.
RECURSIVE typos_of_language(_, _, _)
typos_of_language(lang, data, e) ==
    IF e > Len(data) THEN <<>>
    ELSE typos_of_value(lang, data[e][1], data[e][2], 1) \o typos_of_language(lang, data, e + 1)

\* The first loop over translations.items(), from language i on.
RECURSIVE typos_loop(_, _)
typos_loop(tr, i) ==
    IF i > Len(tr) THEN <<>>
    ELSE typos_of_language(tr[i][1], tr[i][2], 1) \o typos_loop(tr, i + 1)

\* boatfly_issue as it would be without .lower().
boatfly_issue_case_sensitive(data) ==
    HasKey(data, boatfly_key) /\ Contains("shift", Lookup(data, boatfly_key))

boatfly_issue(data) ==
    HasKey(data, boatfly_key) /\ Contains("shift", Lower(Lookup(data, boatfly_key)))

radar_issue(data) ==
    /\ HasKey(data, radar_key)
    /\ \/ Contains(SectionSign \o "cred" \o SectionSign \o "r", Lookup(data, radar_key))
       \/ Contains(SectionSign \o "agreen" \o SectionSign \o "r", Lookup(data, radar_key))
       \/ Contains(SectionSign \o "7gray" \o SectionSign \o "r", Lookup(data, radar_key))

\* The second loop over translations.items(), from language i on.
RECURSIVE difficult_loop(_, _)
difficult_loop(tr, i) ==
    IF i > Len(tr) THEN <<>>
    ELSE (IF boatfly_issue(tr[i][2])
            THEN <<WarningSign \o " In " \o tr[i][1] \o ".json, the translation for " \o boatfly_key
                    \o " incorrectly suggests using the shift (sneak) key instead of ctrl (sprint) to descend">>
            ELSE <<>>)
         \o (IF radar_issue(tr[i][2])
               THEN <<WarningSign \o " In " \o tr[i][1] \o ".json, the translation for " \o radar_key
                       \o " contains untranslated colors:",
                      Fence \o "json",
                      "  \"" \o radar_key \o "\": \"" \o Lookup(tr[i][2], radar_key) \o "\"",
                      Fence>>
               ELSE <<>>)
         \o difficult_loop(tr, i + 1)

\* issues_found is set exactly where a line is emitted.
check_known_issues(en, tr) ==
    LET lines == typos_loop(tr, 1) \o difficult_loop(tr, 1)
    IN  IF lines # <<>>
          THEN [lines |-> lines, exc |-> "Found known issues in one or more translation files"]
          ELSE [lines |-> <<CheckMark \o " No known issues found in any translation files">>, exc |-> ""]

(***************************************************************************)
(* main: the loader and the driver.  A run ends at pc = "done" (main       *)
(* returned) or at pc = "raised" (an exception left main; nothing in the   *)
(* program catches one).                                                   *)
(***************************************************************************)
\* read_json_file: the parsed content of a file of the directory
read_json_file(file) == file

\* sorted(lang_dir.rglob("*.json"), key=lambda x: x.name)
sorted_paths(dir) == SelectSeq(FileNames, LAMBDA name : name \in DOMAIN dir)

\* The paths the loop body does not skip: path.name != "en_us.json"
translation_paths(dir) == SelectSeq(sorted_paths(dir), LAMBDA name : name # "en_us")

\* load_translation as it would be without the pop of language.code.
load_translation_two_pops(file) ==
    Pop(Pop(read_json_file(file), "language.name"), "language.region")

\* One pass of the loop body: the table of a file, the three keys popped.
load_translation(file) ==
    Pop(Pop(Pop(read_json_file(file), "language.name"), "language.region"), "language.code")

\* The translations dict after the loop.
load_translations(dir) ==
    [i \in DOMAIN translation_paths(dir) |->
        <<translation_paths(dir)[i], load_translation(dir[translation_paths(dir)[i]])>>]

main_load ==
    /\ pc = "load"
    /\ en_us' = read_json_file(lang_dir["en_us"])
    /\ translations' = load_translations(lang_dir)
    /\ started' = Append(started, pc)
    /\ pc' = "show_translation_stats"
    /\ UNCHANGED <<lang_dir, wurst_mode, intentionally_untranslated, report, error,
                   run, first_report>>

\* Step as it would be if main caught the exception of a call and went on.
Step_continue(here, outcomes, next) ==
    /\ pc = here
    /\ \E r \in outcomes :
        /\ report' = report \o r.lines
        /\ error' = (IF error # "" THEN error ELSE r.exc)
        /\ pc' = next
    /\ started' = Append(started, here)
    /\ UNCHANGED <<lang_dir, wurst_mode, intentionally_untranslated, en_us, translations,
                   run, first_report>>

\* One call of main: the call at position here has one of the outcomes, its
\* lines go to the report, and main goes on to next unless the call raised.
Step(here, outcomes, next) ==
    /\ pc = here
    /\ \E r \in outcomes :
        /\ report' = report \o r.lines
        /\ error' = r.exc
        /\ pc' = IF r.exc = "" THEN next ELSE "raised"
    /\ started' = Append(started, here)
    /\ UNCHANGED <<lang_dir, wurst_mode, intentionally_untranslated, en_us, translations,
                   run, first_report>>

\* What follows check_order_of_strings in main.
after_order == IF wurst_mode THEN "check_known_issues" ELSE "done"

main_show_translation_stats ==
    Step("show_translation_stats", {show_translation_stats(en_us, translations)},
         "check_extra_keys")

main_check_extra_keys ==
    Step("check_extra_keys", check_extra_keys(en_us, translations),
         "check_untranslated_strings")

main_check_untranslated_strings ==
    Step("check_untranslated_strings",
         check_untranslated_strings(en_us, translations, intentionally_untranslated),
         "check_order_of_strings")

main_check_order_of_strings ==
    Step("check_order_of_strings", {check_order_of_strings(en_us, translations)}, after_order)

main_check_known_issues ==
    Step("check_known_issues", {check_known_issues(en_us, translations)}, "done")

\* The program is started once more on the same, unchanged input: a new
\* process, with a report of its own.
run_again ==
    /\ pc \in {"done", "raised"}
    /\ run < MaxRuns
    /\ run' = run + 1
    /\ first_report' = report
    /\ report' = <<>>
    /\ error' = ""
    /\ started' = <<>>
    /\ en_us' = <<>>
    /\ translations' = <<>>
    /\ pc' = "load"
    /\ UNCHANGED <<lang_dir, wurst_mode, intentionally_untranslated>>

(***************************************************************************)
(* The inputs.                                                             *)
(***************************************************************************)
\* The lists of distinct keys of K of length n
KeyLists(K, n) == {ks \in [1..n -> K] : \A i, j \in 1..n : ks[i] = ks[j] => i = j}

\* The tables of n entries with keys of K, the value of key k one of V[k]
TablesOfLen(K, V, n) ==
    UNION {{[i \in 1..n |-> <<ks[i], vs[i]>>] :
              vs \in {f \in [1..n -> UNION {V[k] : k \in K}] : \A i \in 1..n : f[i] \in V[ks[i]]}} :
           ks \in KeyLists(K, n)}

\* The translations maps over the languages from Langs[i] on, in that order,
\* whose tables hold at most budget entries together; a language may be absent.
RECURSIVE TranslationMaps(_, _, _, _)
TranslationMaps(K, V, i, budget) ==
    IF i > Len(Langs) THEN {<<>>}
    ELSE TranslationMaps(K, V, i + 1, budget)
         \cup UNION {UNION {{<< <<Langs[i], t>> >> \o rest :
                               rest \in TranslationMaps(K, V, i + 1, budget - n)} :
                            t \in TablesOfLen(K, V, n)} :
                     n \in 0..budget}

\* The directory that holds en_us.json with table ref and one file per
\* language of tr
Directory(ref, tr) ==
    [name \in {"en_us"} \cup {tr[i][1] : i \in DOMAIN tr} |->
        IF name = "en_us" THEN ref ELSE tr[CHOOSE i \in DOMAIN tr : tr[i][1] = name][2]]

IgnoredKeys == {"language.name", "language.region", "language.code"}
Keys == {"a", "b", "c"}
DirKeys == {"a", "b"}

\* The values of a key in en_us.json
RefValues == [k \in Keys \cup IgnoredKeys |-> {"X"}]
\* The values of a key in a translation: the reference's or another
Values == [k \in Keys |-> {"X", "Y"}]
\* The values of a key in a translation file of a directory: the language's
\* name for an ignored key, and for the others the reference's value or
\* another, which holds a known typo
DirValues == [k \in DirKeys \cup IgnoredKeys |->
                 IF k \in IgnoredKeys THEN {"Deutsch"} ELSE {"X", "Nofall"}]

RefTables(K) == UNION {TablesOfLen(K, RefValues, n) : n \in 0..Cardinality(K)}

NoExemptions == [lang \in {} |-> {}]
ExemptionTables ==
    {NoExemptions, [lang \in {"de"} |-> {"a"}], [lang \in {"de", "fr"} |-> {"a", "b"}]}

(***************************************************************************)
(* Spec: runs of the program, on every directory within the bounds.        *)
(***************************************************************************)
Init ==
    /\ lang_dir \in {Directory(ref, tr) :
                        ref \in RefTables(DirKeys \cup {"language.name"}),
                        tr \in TranslationMaps(DirKeys \cup IgnoredKeys, DirValues, 1,
                                               MaxDirEntries)}
    /\ wurst_mode \in BOOLEAN
    /\ intentionally_untranslated \in {NoExemptions, [lang \in {"de"} |-> {"a"}]}
    /\ en_us = <<>>
    /\ translations = <<>>
    /\ pc = "load"
    /\ report = <<>>
    /\ error = ""
    /\ started = <<>>
    /\ run = 1
    /\ first_report = <<>>

Next ==
    \/ main_load
    \/ main_show_translation_stats
    \/ main_check_extra_keys
    \/ main_check_untranslated_strings
    \/ main_check_order_of_strings
    \/ main_check_known_issues
    \/ run_again

Spec == Init /\ [][Next]_vars

(***************************************************************************)
(* SpecChecks: each check called on its own, on every reference table,     *)
(* translations map and exemption table within the bounds.                 *)
(***************************************************************************)
\* A call of a check outside main: pc names the check that was called, report
\* holds the lines it emitted and error what it raised.
Call(check, outcomes) ==
    /\ pc = "idle"
    /\ \E r \in outcomes :
        /\ report' = r.lines
        /\ error' = r.exc
    /\ pc' = check
    /\ started' = <<check>>
    /\ UNCHANGED <<lang_dir, wurst_mode, intentionally_untranslated, en_us, translations,
                   run, first_report>>

call_show_translation_stats ==
    Call("show_translation_stats", {show_translation_stats(en_us, translations)})

call_check_extra_keys ==
    Call("check_extra_keys", check_extra_keys(en_us, translations))

call_check_untranslated_strings ==
    Call("check_untranslated_strings",
         check_untranslated_strings(en_us, translations, intentionally_untranslated))

call_check_order_of_strings ==
    Call("check_order_of_strings", {check_order_of_strings(en_us, translations)})

call_check_known_issues ==
    Call("check_known_issues", {check_known_issues(en_us, translations)})

NoDir == [name \in {} |-> <<>>]

InitCall ==
    /\ lang_dir = NoDir
    /\ wurst_mode = FALSE
    /\ pc = "idle"
    /\ report = <<>>
    /\ error = ""
    /\ started = <<>>
    /\ run = 1
    /\ first_report = <<>>

InitChecks ==
    /\ InitCall
    /\ en_us \in RefTables(Keys)
    /\ translations \in TranslationMaps(Keys, Values, 1, MaxEntries)
    /\ intentionally_untranslated \in ExemptionTables

NextChecks ==
    \/ call_show_translation_stats
    \/ call_check_extra_keys
    \/ call_check_untranslated_strings
    \/ call_check_order_of_strings

SpecChecks == InitChecks /\ [][NextChecks]_vars

(***************************************************************************)
(* SpecKnown: check_known_issues called on its own, on translations whose  *)
(* values hold the typos, the colour codes and the word of the rules.      *)
(***************************************************************************)
KnownKeys == {boatfly_key, radar_key, "a"}

\* A colour name between its colour code and the reset code
ColourCode(code, name) == SectionSign \o code \o name \o SectionSign \o "r"

\* The values of a key: clean text, the typos, "shift" in two cases and the
\* colour codes, the word and a colour code also under a key that no rule
\* is about
KnownValues ==
    [k \in KnownKeys |->
        CASE k = boatfly_key -> {"Killaura", "Press SHIFT", "shifted", "Nofall"}
          [] k = radar_key -> {"Killaura", ColourCode("c", "red"), ColourCode("6", "orange"),
                               "a " \o ColourCode("a", "green") \o " dot",
                               ColourCode("7", "gray"), "Triggerbot"}
          [] OTHER -> {"Killaura", "Has LegitKillaura", "KillAura", "Anchoraura", "Autobuild",
                       "Clickaura", "LegitNuker", "Press SHIFT", ColourCode("c", "red")}]

InitKnown ==
    /\ InitCall
    /\ en_us \in RefTables({"a"})
    /\ translations \in TranslationMaps(KnownKeys, KnownValues, 1, MaxKnownEntries)
    /\ intentionally_untranslated = NoExemptions

NextKnown == call_check_known_issues

SpecKnown == InitKnown /\ [][NextKnown]_vars

(***************************************************************************)
(* The properties.                                                         *)
(***************************************************************************)
StartsWith(line, prefix) ==
    Len(line) >= Len(prefix) /\ SubSeq(line, 1, Len(prefix)) = prefix

IsPrefix(s, t) == Len(s) <= Len(t) /\ \A i \in DOMAIN s : s[i] = t[i]

Lang(i) == translations[i][1]
Data(i) == translations[i][2]

\* key is no key of en_us
Extra(key) == \A j \in DOMAIN en_us : en_us[j][1] # key
HasExtraKeys(i) == \E e \in DOMAIN Data(i) : Extra(Data(i)[e][1])

\* The report lists key under a heading of the extra-keys check for lang.
ExtraKeyReported(lang, key) ==
    \E h \in DOMAIN report :
        /\ StartsWith(report[h], WarningSign \o " " \o lang
                                    \o ".json contains translations that don't exist")
        /\ \E j \in (h + 1)..Len(report) :
            /\ report[j] = "- " \o key
            /\ \A m \in (h + 1)..j : StartsWith(report[m], "- ")

\* C1: check_extra_keys passes, emitting only its confirmation line, if and
\* only if no language has a key that en_us lacks; when it fails it has
\* emitted, under the language's heading, a line for every extra key of
\* every offending language, and no confirmation line.
C1_ExtraKeys ==
    pc = "check_extra_keys" =>
        /\ error = "" <=> \A i \in DOMAIN translations : ~HasExtraKeys(i)
        /\ error = "" => report = <<CheckMark \o " No extra keys found">>
        /\ error # "" =>
            /\ error = "Found extra keys in one or more translation files"
            /\ \A i \in DOMAIN translations : \A e \in DOMAIN Data(i) :
                  Extra(Data(i)[e][1]) => ExtraKeyReported(Lang(i), Data(i)[e][1])
            /\ \A h \in DOMAIN report : ~StartsWith(report[h], CheckMark)

\* check_extra_keys has failed on two offending languages, the second with
\* two extra keys.
C1_Witness ==
    /\ pc = "check_extra_keys"
    /\ error # ""
    /\ Len(translations) = 2
    /\ HasExtraKeys(1)
    /\ Cardinality({e \in DOMAIN Data(2) : Extra(Data(2)[e][1])}) = 2

\* The entry e of language i holds the reference's value and is not exempted.
Identical(i, e) ==
    \E j \in DOMAIN en_us : en_us[j][1] = Data(i)[e][1] /\ en_us[j][2] = Data(i)[e][2]
Exempted(i, e) ==
    /\ Lang(i) \in DOMAIN intentionally_untranslated
    /\ Data(i)[e][1] \in intentionally_untranslated[Lang(i)]
NoneUntranslated ==
    \A i \in DOMAIN translations : \A e \in DOMAIN Data(i) : Identical(i, e) => Exempted(i, e)

\* C2, as claimed: check_untranslated_strings passes if and only if every
\* entry of every language whose key is in the reference differs from the
\* reference's value or is exempted; keys that are not in the reference are
\* ignored.
C2_Original ==
    pc = "check_untranslated_strings" => (error = "" <=> NoneUntranslated)

\* C2, amended: on translations whose keys are all keys of the reference,
\* check_untranslated_strings passes if and only if every entry differs from
\* the reference's value or is exempted, and when it fails it has listed
\* every offender; when a language holds a key that is not in the reference
\* the key is not ignored: the check raises KeyError.
C2_Untranslated ==
    pc = "check_untranslated_strings" =>
        IF \E i \in DOMAIN translations : HasExtraKeys(i)
        THEN error = "KeyError"
        ELSE /\ error = "" <=> NoneUntranslated
             /\ error = "" =>
                   report = <<CheckMark \o " No accidentally untranslated strings found">>
             /\ error # "" =>
                 /\ error = "Found untranslated strings in one or more translation files"
                 /\ \A i \in DOMAIN translations : \A e \in DOMAIN Data(i) :
                       Identical(i, e) /\ ~Exempted(i, e) =>
                          \E h \in DOMAIN report :
                             report[h] = "- " \o Data(i)[e][1] \o ": " \o Data(i)[e][2]

\* check_untranslated_strings has failed on translations that hold an
\* exempted identical string and an identical string that is not exempted.
C2_Witness ==
    /\ pc = "check_untranslated_strings"
    /\ error = "Found untranslated strings in one or more translation files"
    /\ \E i \in DOMAIN translations : \E e \in DOMAIN Data(i) : Identical(i, e) /\ Exempted(i, e)
    /\ \E i \in DOMAIN translations : \E e \in DOMAIN Data(i) : Identical(i, e) /\ ~Exempted(i, e)

\* The position of a key in a table
Index(data, key) == CHOOSE e \in DOMAIN data : data[e][1] = key

\* The keys that language i shares with the reference come in the same order
\* in both tables.
SameOrder(i) ==
    \A k1, k2 \in KeySet(en_us) \cap KeySet(Data(i)) :
        Index(en_us, k1) < Index(en_us, k2) <=> Index(Data(i), k1) < Index(Data(i), k2)

\* C3: check_order_of_strings passes if and only if every language holds the
\* keys it shares with the reference in the reference's order; it emits its
\* confirmation line only then, and when it fails the error names the first
\* language in load order whose order differs.
C3_Order ==
    pc = "check_order_of_strings" =>
        /\ error = "" <=> \A i \in DOMAIN translations : SameOrder(i)
        /\ error = "" <=>
              report = <<CheckMark \o " The order of strings in each translation file matches en_us.json">>
        /\ error # "" =>
            /\ report = <<>>
            /\ \E i \in DOMAIN translations :
                /\ ~SameOrder(i)
                /\ \A j \in 1..(i - 1) : SameOrder(j)
                /\ error = WarningSign \o " The order of strings in " \o Lang(i)
                             \o ".json is different from en_us.json"

\* check_order_of_strings has failed on two languages, the first in order
\* and the second not, the first lacking a key of the reference.
C3_Witness ==
    /\ pc = "check_order_of_strings"
    /\ error # ""
    /\ Len(translations) = 2
    /\ SameOrder(1) /\ ~SameOrder(2)
    /\ Len(Data(1)) = 2
    /\ KeySet(Data(1)) \subseteq KeySet(en_us)
    /\ Len(en_us) = 3

StatsLines(lang) == {h \in DOMAIN report : StartsWith(report[h], "| " \o lang \o " |")}

\* C5, as claimed: show_translation_stats never raises, and emits exactly one
\* line for the reference and one for each translation table.
C5_Original ==
    pc = "show_translation_stats" =>
        /\ error = ""
        /\ Cardinality(StatsLines("en_us")) = 1
        /\ \A i \in DOMAIN translations : Cardinality(StatsLines(Lang(i))) = 1

\* The entries of a file other than the three ignored ones, in file order
Kept(file) == SelectSeq(file, LAMBDA e : e[1] \notin IgnoredKeys)

\* The translations map holds, in the order of their names, the files of the
\* directory other than en_us.json, each without the three ignored keys and
\* with its other entries unchanged and in file order.
TranslationsLoaded ==
    /\ {Lang(i) : i \in DOMAIN translations} = DOMAIN lang_dir \ {"en_us"}
    /\ \A i, j \in DOMAIN translations :
          i < j => \E m, n \in DOMAIN FileNames :
                      m < n /\ FileNames[m] = Lang(i) /\ FileNames[n] = Lang(j)
    /\ \A i \in DOMAIN translations :
          /\ KeySet(Data(i)) \cap IgnoredKeys = {}
          /\ Data(i) = Kept(lang_dir[Lang(i)])

\* C6, as claimed: from the load on, no loaded table, the reference included,
\* holds an ignored key, and every table is the file's other entries.
C6_Original ==
    pc # "load" =>
        /\ TranslationsLoaded
        /\ KeySet(en_us) \cap IgnoredKeys = {}
        /\ en_us = Kept(lang_dir["en_us"])

\* C6, amended: from the load on and through every later step, every
\* translation table is its file without the three ignored keys, the other
\* entries unchanged and in file order, and en_us.json is no entry of the
\* translations map; the reference table is en_us.json exactly as read, the
\* ignored keys it holds included.
C6_Loaded ==
    pc # "load" =>
        /\ TranslationsLoaded
        /\ en_us = lang_dir["en_us"]

\* A run has ended on a directory whose reference holds language.name and
\* whose de.json holds an ignored key before another entry.
C6_Witness ==
    /\ pc = "done"
    /\ HasKey(en_us, "language.name")
    /\ "de" \in DOMAIN lang_dir
    /\ Len(lang_dir["de"]) = 2
    /\ lang_dir["de"][1][1] \in IgnoredKeys
    /\ lang_dir["de"][2][1] \notin IgnoredKeys

ValidationErrors ==
    {"Found extra keys in one or more translation files",
     "Found untranslated strings in one or more translation files",
     "Found known issues in one or more translation files"}
    \cup {WarningSign \o " The order of strings in " \o Langs[i] \o ".json is different from en_us.json" :
            i \in DOMAIN Langs}

\* C7, as claimed: when a check has raised its validation error, the report
\* already holds a warning line that names the file of an offending language.
C7_Original ==
    pc = "raised" /\ error \in ValidationErrors =>
        \E h \in DOMAIN report : \E i \in DOMAIN translations :
            /\ StartsWith(report[h], WarningSign \o " ")
            /\ Contains(Lang(i) \o ".json", report[h])

\* The calls of main, in order
FullOrder ==
    <<"load", "show_translation_stats", "check_extra_keys", "check_untranslated_strings",
      "check_order_of_strings">> \o (IF wurst_mode THEN <<"check_known_issues">> ELSE <<>>)

\* C8, as claimed: every run makes all the calls, in the fixed order, the
\* ones after a failing check too.
C8_Original ==
    pc \in {"done", "raised"} => started = FullOrder

\* The check that raises an exception
RaisedBy(exc) ==
    CASE exc = "ZeroDivisionError" -> "show_translation_stats"
      [] exc = "Found extra keys in one or more translation files" -> "check_extra_keys"
      [] exc = "Found untranslated strings in one or more translation files"
            -> "check_untranslated_strings"
      [] exc = "Found known issues in one or more translation files" -> "check_known_issues"
      [] StartsWith(exc, WarningSign \o " The order of strings in ") -> "check_order_of_strings"
      [] OTHER -> "none"

\* C8, amended: the driver makes its calls in the fixed order, known-issues
\* last and only when the mode flag is set; a run without a failing check
\* makes them all, and the first failing check ends the run as failed: no
\* later check runs.
C8_Driver ==
    /\ IsPrefix(started, FullOrder)
    /\ pc = "done" => started = FullOrder /\ error = ""
    /\ pc = "raised" => error # "" /\ started[Len(started)] = RaisedBy(error)
    /\ pc \notin {"done", "raised"} => error = "" /\ pc = FullOrder[Len(started) + 1]

\* A run was ended by check_extra_keys, on translations that hold an
\* untranslated string as well.
C8_Witness ==
    /\ pc = "raised"
    /\ started = <<"load", "show_translation_stats", "check_extra_keys">>
    /\ \E i \in DOMAIN translations : \E e \in DOMAIN Data(i) : Identical(i, e) /\ ~Exempted(i, e)

\* The values of KnownValues that hold one of the eight typos, the word
\* "shift" in any case, and one of the three checked colour codes.
TypoValues ==
    {"Has LegitKillaura", "KillAura", "Anchoraura", "Autobuild", "Clickaura", "LegitNuker",
     "Nofall", "Triggerbot"}
ShiftValues == {"Press SHIFT", "shifted"}
ColourValues ==
    {ColourCode("c", "red"), "a " \o ColourCode("a", "green") \o " dot", ColourCode("7", "gray")}

TypoIssue(i, e) == Data(i)[e][2] \in TypoValues
BoatflyIssue(i, e) == Data(i)[e][1] = boatfly_key /\ Data(i)[e][2] \in ShiftValues
RadarIssue(i, e) == Data(i)[e][1] = radar_key /\ Data(i)[e][2] \in ColourValues

\* C9: check_known_issues passes, emitting only its success line, if and only
\* if no value of any language holds a typo, no boatfly description holds
\* "shift" in any case and no radar description holds a checked colour code;
\* when it fails, every offense of every language has been reported.
C9_KnownIssues ==
    pc = "check_known_issues" =>
        /\ error = "" <=>
              \A i \in DOMAIN translations : \A e \in DOMAIN Data(i) :
                  ~TypoIssue(i, e) /\ ~BoatflyIssue(i, e) /\ ~RadarIssue(i, e)
        /\ error = "" => report = <<CheckMark \o " No known issues found in any translation files">>
        /\ error # "" =>
            /\ error = "Found known issues in one or more translation files"
            /\ \A h \in DOMAIN report : ~StartsWith(report[h], CheckMark)
            /\ \A i \in DOMAIN translations : \A e \in DOMAIN Data(i) :
                /\ TypoIssue(i, e) =>
                      \E h \in DOMAIN report :
                          /\ StartsWith(report[h], WarningSign \o " In " \o Lang(i) \o ".json string "
                                                      \o Data(i)[e][1] \o ", the word '")
                          /\ h + 2 \in DOMAIN report
                          /\ report[h + 2] = "  \"" \o Data(i)[e][1] \o "\": \""
                                                \o Data(i)[e][2] \o "\""
                /\ BoatflyIssue(i, e) =>
                      \E h \in DOMAIN report :
                          StartsWith(report[h], WarningSign \o " In " \o Lang(i)
                                                  \o ".json, the translation for " \o boatfly_key)
                /\ RadarIssue(i, e) =>
                      \E h \in DOMAIN report :
                          StartsWith(report[h], WarningSign \o " In " \o Lang(i)
                                                  \o ".json, the translation for " \o radar_key)

\* check_known_issues has failed on "Has LegitKillaura" in the first language
\* and a boatfly description with "SHIFT" in the second.
C9_Witness ==
    /\ pc = "check_known_issues"
    /\ error # ""
    /\ Len(translations) = 2
    /\ \E e \in DOMAIN Data(1) : Data(1)[e][2] = "Has LegitKillaura"
    /\ \E e \in DOMAIN Data(2) : BoatflyIssue(2, e)

\* C10: in every run of main, when check_untranslated_strings or
\* check_order_of_strings is about to execute, every key of every translation
\* table is a key of the reference table, and no run ends with the KeyError
\* of the lookup en_us[key].
C10_KeysInReference ==
    /\ pc \in {"check_untranslated_strings", "check_order_of_strings"} =>
          \A i \in DOMAIN translations : KeySet(Data(i)) \subseteq KeySet(en_us)
    /\ error # "KeyError"

\* main is about to call check_untranslated_strings on two languages with
\* entries.
C10_Witness ==
    /\ pc = "check_untranslated_strings"
    /\ Len(translations) = 2
    /\ Len(Data(1)) > 0 /\ Len(Data(2)) > 0

====
